---------------------------- MODULE Spec2Model ----------------------------
(***************************************************************************)
(* The reallocation controller of karpenter (package reallocation) and the *)
(* v1alpha3 Provisioner API it reconciles.                                *)
(*                                                                         *)
(* Time: `now' counts whole seconds; durations handed to the work queue    *)
(* are kept in milliseconds.  A delayed add (AddAfter / AddRateLimited)    *)
(* puts the key in `waiting'; the timer firing is a separate step that may *)
(* happen at any later moment.                                             *)
(***************************************************************************)
EXTENDS Integers, Sequences, FiniteSets, TLC

(* ------------------------------ bounds -------------------------------- *)
\* SpecRL: consecutive failures a key may already have
MaxBackoffs == 8
\* SpecRL: how far below zero the token bucket may already be
MaxDeficit == 4
\* last second the clock reaches
MaxTime == 2
\* errors are injected into a key's cycle only below this many consecutive failures
MaxFailures == 1
\* errors are injected only while fewer than this many bucket tokens are spent
MaxBurstUse == 1
\* calls of WithOverrides on the same constraints and pod
MaxCalls == 2

(* ----------------------- program constants ---------------------------- *)
\* a nil *int64
Nil == -1
\* (variant) two workers
MaxConcurrentReconcilesTwo == 1 + 1
\* controller.Options.MaxConcurrentReconciles
MaxConcurrentReconciles == 1
\* workqueue.NewItemExponentialFailureRateLimiter(100*time.Millisecond, 10*time.Second)
BaseDelay == 100
MaxDelay == 10000
\* rate.NewLimiter(rate.Limit(10), 100)
Qps == 10
Burst == 100
\* reconcile.Result{RequeueAfter: 5 * time.Second}
RequeueInterval == 5000
\* grace period after which a node that is not ready has failed to join (seconds)
JoinGracePeriod == 1

Keys == {"p1", "p2"}
Nodes == {"n1"}
\* the provisioner-name label of each node
NodeOwner == [n \in Nodes |-> "p1"]
Workers == 1 .. MaxConcurrentReconciles

\* the clusters explored: the Provisioner names the operator uses and the
\* nodes that get launched
Clusters ==
    {[keys |-> {"p1"}, nodes |-> {"n1"}],
     [keys |-> {"p1", "p2"}, nodes |-> {}]}

\* values an operator gives the two optional TTL fields (seconds)
AfterEmptyTTLs == {Nil, 1}
UntilExpiredTTLs == {Nil, 2}

VARIABLES
    cluster,        \* the cluster this run is about, one of Clusters
    now,            \* wall clock, seconds
    provisioners,   \* object store: Provisioner objects by key
    nodes,          \* object store: Node objects by name
    queue,          \* workqueue.Type.queue
    dirty,          \* workqueue.Type.dirty
    processing,     \* workqueue.Type.processing
    waiting,        \* delaying queue: the delay each key waits out, 0 when none
    failures,       \* ItemExponentialFailureRateLimiter.failures
    tokens,         \* rate.Limiter tokens
    pc,             \* position of each worker in its cycle
    req,            \* the request a worker is reconciling
    provisioner,    \* the Provisioner object a worker fetched
    callErr,        \* error returned by the latest call a worker made
    result,         \* what Reconcile returned to a worker
    trace,          \* stages a worker invoked in the current cycle
    constraints,    \* the Constraints WithOverrides is called on
    pod,            \* the pod WithOverrides is called with
    resolved        \* the Constraints values the calls of WithOverrides returned

vars == <<cluster, now, provisioners, nodes, queue, dirty, processing, waiting,
          failures, tokens, pc, req, provisioner, callErr,
          result, trace, constraints, pod, resolved>>

storeVars == <<provisioners, nodes>>
queueVars == <<queue, dirty, processing, waiting>>
limiterVars == <<failures, tokens>>
workerVars == <<pc, req, provisioner, callErr, result, trace>>
resolverVars == <<constraints, pod, resolved>>

(* ------------------------------ objects ------------------------------- *)
\* ProvisionerSpec: the two TTL fields, both optional
ProvisionerSpec(afterEmpty, untilExpired) ==
    [exists |-> TRUE,
     ttlSecondsAfterEmpty |-> afterEmpty,
     ttlSecondsUntilExpired |-> untilExpired]

\* what the store holds for a key that has no Provisioner
NotFound ==
    [exists |-> FALSE, ttlSecondsAfterEmpty |-> Nil, ttlSecondsUntilExpired |-> Nil]

\* a Node object as the controllers read it.  Every node is launched with
\* the termination finalizer; `deleting' is its deletion timestamp,
\* `cordoned' its unschedulable flag and `terminated' tells that the cloud
\* provider has confirmed the end of the backing instance.
NewNode(t) ==
    [exists |-> TRUE, created |-> t, ready |-> FALSE, empty |-> TRUE,
     underutilized |-> FALSE, ttlAfterEmpty |-> Nil, deleting |-> FALSE,
     cordoned |-> FALSE, terminated |-> FALSE]

NoNode ==
    [exists |-> FALSE, created |-> 0, ready |-> FALSE, empty |-> TRUE,
     underutilized |-> FALSE, ttlAfterEmpty |-> Nil, deleting |-> FALSE,
     cordoned |-> FALSE, terminated |-> FALSE]


Min(a, b) == IF a < b THEN a ELSE b
Max(a, b) == IF a > b THEN a ELSE b

RECURSIVE Pow2(_)
Pow2(n) == IF n = 0 THEN 1 ELSE 2 * Pow2(n - 1)

(* ----------------------------- work queue ----------------------------- *)
\* the three fields of workqueue.Type, as one value
wq == [queue |-> queue, dirty |-> dirty, processing |-> processing]

\* workqueue.Type.Add: an item already dirty is dropped; an item being
\* processed is only marked dirty, otherwise it is appended to the queue
Add(q, item) ==
    IF item \in q.dirty THEN q
    ELSE IF item \in q.processing
         THEN [q EXCEPT !.dirty = @ \cup {item}]
         ELSE [q EXCEPT !.dirty = @ \cup {item}, !.queue = Append(@, item)]

\* workqueue.Type.Get: the head of the queue moves from dirty to processing
Get(q) ==
    [queue |-> Tail(q.queue),
     dirty |-> q.dirty \ {Head(q.queue)},
     processing |-> q.processing \cup {Head(q.queue)}]

\* workqueue.Type.Done: an item that became dirty meanwhile is queued again
Done(q, item) ==
    IF item \in q.dirty
    THEN [q EXCEPT !.processing = @ \ {item}, !.queue = Append(@, item)]
    ELSE [q EXCEPT !.processing = @ \ {item}]

(* ---------------------------- rate limiter ---------------------------- *)
\* ItemExponentialFailureRateLimiter.When: baseDelay * 2^failures, capped
ItemExponentialFailureWhen(f) ==
    Min(BaseDelay * Pow2(f), MaxDelay)

\* BucketRateLimiter.When: Reserve one token; a deficit is waited out at
\* the limiter's rate
BucketWhen(tok) ==
    IF tok - 1 >= 0 THEN 0 ELSE (1 - tok) * (1000 \div Qps)

\* (variant) only the per-item limiter is consulted
MaxOfWhenItemOnly(f, tok) ==
    ItemExponentialFailureWhen(f)

\* MaxOfRateLimiter.When: the longest delay any limiter asks for
MaxOfWhen(f, tok) ==
    Max(ItemExponentialFailureWhen(f), BucketWhen(tok))

(* ----------------------------- Reconcile ------------------------------ *)
NoErr == [msg |-> "", cause |-> ""]

\* fmt.Errorf("<stage message>, %w", err)
StageMessage(stage) ==
    CASE stage = "terminateFailedToJoin" -> "terminating nodes that failed to join"
      [] stage = "markUnderutilized"     -> "adding ttl and underutilized label"
      [] stage = "clearUnderutilized"    -> "removing ttl from node"
      [] stage = "terminateExpired"      -> "marking nodes terminable"
      [] OTHER                           -> ""

\* (variant) the error of a failed call is dropped
ErrorResultSwallowed(stage, cause) ==
    [requeueAfter |-> 0, err |-> NoErr]

\* what Reconcile returns when a call fails
ErrorResult(stage, cause) ==
    [requeueAfter |-> 0, err |-> [msg |-> StageMessage(stage), cause |-> cause]]

\* (variant) a missing Provisioner is reported like any other fetch error
NotFoundResultAsError ==
    [requeueAfter |-> 0, err |-> [msg |-> "", cause |-> "NotFound"]]

\* the Provisioner is gone: return reconcile.Result{}, nil
NotFoundResult == [requeueAfter |-> 0, err |-> NoErr]

\* utilization ttl is not defined: return reconcile.Result{}, nil
SkipResult == [requeueAfter |-> 0, err |-> NoErr]

\* (variant) the time unit is dropped from the revisit interval
SuccessResultShort == [requeueAfter |-> 5, err |-> NoErr]

\* all stages done: return reconcile.Result{RequeueAfter: 5 * time.Second}, nil
SuccessResult == [requeueAfter |-> RequeueInterval, err |-> NoErr]

NoResult == [requeueAfter |-> 0, err |-> NoErr]

\* (variant) clear runs before mark
NextStageSwapped(stage, p) ==
    CASE stage = "fetch"                 -> "terminateFailedToJoin"
      [] stage = "terminateFailedToJoin" ->
            IF p.ttlSecondsAfterEmpty = Nil THEN "returned" ELSE "clearUnderutilized"
      [] stage = "clearUnderutilized"    -> "markUnderutilized"
      [] stage = "markUnderutilized"     -> "terminateExpired"
      [] OTHER                           -> "returned"

\* (variant) the ttl check comes before the failed-to-join purge
NextStageTTLFirst(stage, p) ==
    CASE stage = "fetch"                 ->
            IF p.ttlSecondsAfterEmpty = Nil THEN "returned" ELSE "terminateFailedToJoin"
      [] stage = "terminateFailedToJoin" -> "markUnderutilized"
      [] stage = "markUnderutilized"     -> "clearUnderutilized"
      [] stage = "clearUnderutilized"    -> "terminateExpired"
      [] OTHER                           -> "returned"

\* (variant) markUnderutilized is not called
NextStageNoMark(stage, p) ==
    CASE stage = "fetch"                 -> "terminateFailedToJoin"
      [] stage = "terminateFailedToJoin" ->
            IF p.ttlSecondsAfterEmpty = Nil THEN "returned" ELSE "clearUnderutilized"
      [] stage = "clearUnderutilized"    -> "terminateExpired"
      [] OTHER                           -> "returned"

\* (variant) clearUnderutilized is not called
NextStageNoClear(stage, p) ==
    CASE stage = "fetch"                 -> "terminateFailedToJoin"
      [] stage = "terminateFailedToJoin" ->
            IF p.ttlSecondsAfterEmpty = Nil THEN "returned" ELSE "markUnderutilized"
      [] stage = "markUnderutilized"     -> "terminateExpired"
      [] OTHER                           -> "returned"

\* where Reconcile goes after a stage returned nil, for the fetched provisioner p
NextStage(stage, p) ==
    CASE stage = "fetch"                 -> "terminateFailedToJoin"
      [] stage = "terminateFailedToJoin" ->
            IF p.ttlSecondsAfterEmpty = Nil THEN "returned" ELSE "markUnderutilized"
      [] stage = "markUnderutilized"     -> "clearUnderutilized"
      [] stage = "clearUnderutilized"    -> "terminateExpired"
      [] OTHER                           -> "returned"

\* the result of a cycle that ends after `stage' returned nil
ResultAfter(stage) ==
    IF stage = "terminateFailedToJoin" THEN SkipResult ELSE SuccessResult

(* ------------------------ Utilization (nodes) ------------------------- *)
\* nodes carrying the provisioner-name label of key k
OwnedNodes(k) == {n \in Nodes : nodes[n].exists /\ NodeOwner[n] = k}

\* a node that is not ready and older than the join grace period
FailedToJoin(n) ==
    /\ ~nodes[n].ready
    /\ now - nodes[n].created > JoinGracePeriod

\* (variant) the empty TTL must be exceeded, not just reached
EmptyTTLExpiredStrict(n, p) ==
    /\ nodes[n].underutilized
    /\ nodes[n].ttlAfterEmpty # Nil
    /\ now - nodes[n].ttlAfterEmpty > p.ttlSecondsAfterEmpty

\* a marked node whose empty TTL has run out
EmptyTTLExpired(n, p) ==
    /\ nodes[n].underutilized
    /\ nodes[n].ttlAfterEmpty # Nil
    /\ now - nodes[n].ttlAfterEmpty >= p.ttlSecondsAfterEmpty

\* a node older than the provisioner's expiry TTL
AgeTTLExpired(n, p) ==
    /\ p.ttlSecondsUntilExpired # Nil
    /\ now - nodes[n].created >= p.ttlSecondsUntilExpired

\* (variant) markUnderutilized stamps every empty node, marked or not
TargetsRemark(stage, k, p) ==
    CASE stage = "terminateFailedToJoin" ->
            {n \in OwnedNodes(k) : FailedToJoin(n)}
      [] stage = "markUnderutilized" ->
            {n \in OwnedNodes(k) : nodes[n].empty}
      [] stage = "clearUnderutilized" ->
            {n \in OwnedNodes(k) : ~nodes[n].empty /\ nodes[n].underutilized}
      [] stage = "terminateExpired" ->
            {n \in OwnedNodes(k) : EmptyTTLExpired(n, p) \/ AgeTTLExpired(n, p)}
      [] OTHER -> {}

\* the nodes each stage acts on
Targets(stage, k, p) ==
    CASE stage = "terminateFailedToJoin" ->
            {n \in OwnedNodes(k) : FailedToJoin(n)}
      [] stage = "markUnderutilized" ->
            {n \in OwnedNodes(k) : nodes[n].empty /\ ~nodes[n].underutilized}
      [] stage = "clearUnderutilized" ->
            {n \in OwnedNodes(k) : ~nodes[n].empty /\ nodes[n].underutilized}
      [] stage = "terminateExpired" ->
            {n \in OwnedNodes(k) : EmptyTTLExpired(n, p) \/ AgeTTLExpired(n, p)}
      [] OTHER -> {}

\* (variant) clearUnderutilized removes the label and leaves the annotation
ApplyLabelOnly(stage, node) ==
    CASE stage = "markUnderutilized" ->
            [node EXCEPT !.underutilized = TRUE, !.ttlAfterEmpty = now]
      [] stage = "clearUnderutilized" ->
            [node EXCEPT !.underutilized = FALSE]
      [] OTHER ->
            [node EXCEPT !.deleting = TRUE]

\* what a stage does to one node it acts on
Apply(stage, node) ==
    CASE stage = "markUnderutilized" ->
            [node EXCEPT !.underutilized = TRUE, !.ttlAfterEmpty = now]
      [] stage = "clearUnderutilized" ->
            [node EXCEPT !.underutilized = FALSE, !.ttlAfterEmpty = Nil]
      [] OTHER ->
            [node EXCEPT !.deleting = TRUE]


(* ---------------------- Constraints.WithOverrides --------------------- *)
\* A map[string]string is a function on the set of its keys, a []string a
\* sequence (nil and empty alike << >>), a *string << >> for nil and <<v>>
\* for a pointer to v.
ArchitectureAmd64 == "amd64"
ArchitectureArm64 == "arm64"
OperatingSystemLinux == "linux"
ArchitectureLabelKey == "kubernetes.io/arch"
OperatingSystemLabelKey == "kubernetes.io/os"
ZoneLabelKey == "topology.kubernetes.io/zone"
InstanceTypeLabelKey == "node.kubernetes.io/instance-type"

\* Constraints with no field set
NoConstraints ==
    [taints |-> <<>>, labels |-> <<>>, zones |-> <<>>, instanceTypes |-> <<>>,
     architecture |-> <<>>, operatingSystem |-> <<>>]

\* functional.UnionStringMaps(a, b): every key of either map, the value of
\* the later map on a key of both
UnionStringMaps(a, b) ==
    [k \in (DOMAIN a) \cup (DOMAIN b) |-> IF k \in DOMAIN b THEN b[k] ELSE a[k]]

\* (variant) the provisioner's zones are preferred to the pod's
getZonesProvisionerFirst(c, p) ==
    IF Len(c.zones) # 0 THEN c.zones
    ELSE IF ZoneLabelKey \in DOMAIN p.nodeSelector
         THEN <<p.nodeSelector[ZoneLabelKey]>>
         ELSE <<>>

getZones(c, p) ==
    IF ZoneLabelKey \in DOMAIN p.nodeSelector
    THEN <<p.nodeSelector[ZoneLabelKey]>>
    ELSE IF Len(c.zones) # 0 THEN c.zones
         ELSE <<>>

getInstanceTypes(c, p) ==
    IF InstanceTypeLabelKey \in DOMAIN p.nodeSelector
    THEN <<p.nodeSelector[InstanceTypeLabelKey]>>
    ELSE IF Len(c.instanceTypes) # 0 THEN c.instanceTypes
         ELSE <<>>

\* (variant) the default architecture is arm64
getArchitectureDefaultArm(c, p) ==
    IF ArchitectureLabelKey \in DOMAIN p.nodeSelector
    THEN <<p.nodeSelector[ArchitectureLabelKey]>>
    ELSE IF c.architecture # <<>> THEN c.architecture
         ELSE <<ArchitectureArm64>>

getArchitecture(c, p) ==
    IF ArchitectureLabelKey \in DOMAIN p.nodeSelector
    THEN <<p.nodeSelector[ArchitectureLabelKey]>>
    ELSE IF c.architecture # <<>> THEN c.architecture
         ELSE <<ArchitectureAmd64>>

getOperatingSystem(c, p) ==
    IF OperatingSystemLabelKey \in DOMAIN p.nodeSelector
    THEN <<p.nodeSelector[OperatingSystemLabelKey]>>
    ELSE IF c.operatingSystem # <<>> THEN c.operatingSystem
         ELSE <<OperatingSystemLinux>>

\* (variant) the maps are united in the other order
WithOverridesLabelsFirst(c, p) ==
    [taints |-> c.taints,
     labels |-> UnionStringMaps(p.nodeSelector, c.labels),
     zones |-> getZones(c, p),
     instanceTypes |-> getInstanceTypes(c, p),
     architecture |-> getArchitecture(c, p),
     operatingSystem |-> getOperatingSystem(c, p)]

\* (variant) the taints are not copied
WithOverridesNoTaints(c, p) ==
    [taints |-> <<>>,
     labels |-> UnionStringMaps(c.labels, p.nodeSelector),
     zones |-> getZones(c, p),
     instanceTypes |-> getInstanceTypes(c, p),
     architecture |-> getArchitecture(c, p),
     operatingSystem |-> getOperatingSystem(c, p)]

WithOverrides(c, p) ==
    [taints |-> c.taints,
     labels |-> UnionStringMaps(c.labels, p.nodeSelector),
     zones |-> getZones(c, p),
     instanceTypes |-> getInstanceTypes(c, p),
     architecture |-> getArchitecture(c, p),
     operatingSystem |-> getOperatingSystem(c, p)]

\* c.WithLabel(key, value): the receiver after the call, which is also the
\* value returned (c.Labels is assigned, then c is returned)
WithLabel(c, key, value) ==
    [c EXCEPT !.labels = UnionStringMaps(@, [k \in {key} |-> value])]

\* (variant) WithOverrides assigns the united labels to the receiver, as
\* WithLabel does
WithOverridesCallInPlace(c, p) ==
    [receiver |-> [c EXCEPT !.labels = UnionStringMaps(@, p.nodeSelector)],
     pod |-> p,
     returned |-> WithOverrides(c, p)]

\* the receiver, the pod and the returned value after c.WithOverrides(p):
\* the body builds a new Constraints and assigns to no field of c or p
WithOverridesCall(c, p) ==
    [receiver |-> c,
     pod |-> p,
     returned |-> WithOverrides(c, p)]

\* the maps with keys among K and, for each key k, a value in V[k]
Maps(K, V) ==
    UNION {[D -> UNION {V[k] : k \in D}] : D \in SUBSET K}

StringMaps(K, V) ==
    {m \in Maps(K, V) : \A k \in DOMAIN m : m[k] \in V[k]}

\* the node selectors of the pods WithOverrides is tried on
PodSelectorValues ==
    [k \in {ZoneLabelKey, InstanceTypeLabelKey, ArchitectureLabelKey,
             OperatingSystemLabelKey, "team"} |->
        CASE k = ZoneLabelKey            -> {"zone-b"}
          [] k = InstanceTypeLabelKey    -> {"c5.large"}
          [] k = ArchitectureLabelKey    -> {"arm64", "amd64"}
          [] k = OperatingSystemLabelKey -> {"windows"}
          [] OTHER                       -> {"a", "b"}]

Pods ==
    {[nodeSelector |-> m] :
        m \in StringMaps(DOMAIN PodSelectorValues, PodSelectorValues)}

\* the provisioner constraints WithOverrides is tried on
ProvisionerLabelValues ==
    [k \in {"team", "env"} |-> IF k = "team" THEN {"a"} ELSE {"prod"}]

ConstraintSets ==
    [taints : {<<>>, <<"dedicated=gpu:NoSchedule">>},
     labels : StringMaps(DOMAIN ProvisionerLabelValues, ProvisionerLabelValues),
     zones : {<<>>, <<"zone-a">>, <<"zone-a", "zone-c">>},
     instanceTypes : {<<>>, <<"m5.large">>},
     architecture : {<<>>, <<"amd64">>, <<"arm64">>},
     operatingSystem : {<<>>, <<"linux">>}]

(* ------------------------------- Init --------------------------------- *)
\* a worker between two cycles
IdleWorker(w) ==
    /\ pc[w] = "idle"
    /\ req[w] = "none"

Init ==
    /\ cluster \in Clusters
    /\ now = 0
    /\ provisioners = [k \in Keys |-> NotFound]
    /\ nodes = [n \in Nodes |-> NoNode]
    /\ queue = <<>>
    /\ dirty = {}
    /\ processing = {}
    /\ waiting = [k \in Keys |-> 0]
    /\ failures = [k \in Keys |-> 0]
    /\ tokens = Burst
    /\ pc = [w \in Workers |-> "idle"]
    /\ req = [w \in Workers |-> "none"]
    /\ provisioner = [w \in Workers |-> NotFound]
    /\ callErr = [w \in Workers |-> ""]
    /\ result = [w \in Workers |-> NoResult]
    /\ trace = [w \in Workers |-> <<>>]
    /\ constraints = NoConstraints
    /\ pod = [nodeSelector |-> <<>>]
    /\ resolved = <<>>

(* --------------------------- the environment -------------------------- *)
\* a watch event for key k reaches the controller's queue
Enqueue(k) ==
    /\ queue' = Add(wq, k).queue
    /\ dirty' = Add(wq, k).dirty
    /\ processing' = Add(wq, k).processing
    /\ UNCHANGED waiting

\* the operator creates or updates Provisioner k
ApplyProvisioner(k, afterEmpty, untilExpired) ==
    /\ k \in cluster.keys
    /\ provisioners[k] # ProvisionerSpec(afterEmpty, untilExpired)
    /\ provisioners' = [provisioners EXCEPT ![k] = ProvisionerSpec(afterEmpty, untilExpired)]
    /\ Enqueue(k)
    /\ UNCHANGED <<resolverVars, cluster, now, nodes, limiterVars, workerVars>>

\* the operator deletes Provisioner k
DeleteProvisioner(k) ==
    /\ provisioners[k].exists
    /\ provisioners' = [provisioners EXCEPT ![k] = NotFound]
    /\ Enqueue(k)
    /\ UNCHANGED <<resolverVars, cluster, now, nodes, limiterVars, workerVars>>

\* a node is launched for its provisioner
LaunchNode(n) ==
    /\ n \in cluster.nodes
    /\ ~nodes[n].exists
    /\ nodes' = [nodes EXCEPT ![n] = NewNode(now)]
    /\ UNCHANGED <<resolverVars, cluster, now, provisioners, queueVars, limiterVars, workerVars>>

\* the kubelet reports the node ready
NodeReady(n) ==
    /\ nodes[n].exists /\ ~nodes[n].ready
    /\ nodes' = [nodes EXCEPT ![n].ready = TRUE]
    /\ UNCHANGED <<resolverVars, cluster, now, provisioners, queueVars, limiterVars, workerVars>>

\* the first non-daemonset pod is bound to the node
SchedulePod(n) ==
    /\ nodes[n].exists /\ nodes[n].ready /\ nodes[n].empty
    /\ ~nodes[n].deleting /\ ~nodes[n].cordoned
    /\ nodes' = [nodes EXCEPT ![n].empty = FALSE]
    /\ UNCHANGED <<resolverVars, cluster, now, provisioners, queueVars, limiterVars, workerVars>>

\* the last non-daemonset pod leaves the node
RemovePod(n) ==
    /\ nodes[n].exists /\ ~nodes[n].empty
    /\ nodes' = [nodes EXCEPT ![n].empty = TRUE]
    /\ UNCHANGED <<resolverVars, cluster, now, provisioners, queueVars, limiterVars, workerVars>>

\* kubectl delete node: a user requests the deletion of the node
DeleteNode(n) ==
    /\ nodes[n].exists /\ ~nodes[n].deleting
    /\ nodes' = [nodes EXCEPT ![n].deleting = TRUE]
    /\ UNCHANGED <<resolverVars, cluster, now, provisioners, queueVars, limiterVars, workerVars>>

\* graceful termination, step 1: the node whose deletion is requested is cordoned
Cordon(n) ==
    /\ nodes[n].exists /\ nodes[n].deleting /\ ~nodes[n].cordoned
    /\ nodes' = [nodes EXCEPT ![n].cordoned = TRUE]
    /\ UNCHANGED <<resolverVars, cluster, now, provisioners, queueVars, limiterVars, workerVars>>

\* graceful termination, step 2: the non-daemonset pods of the cordoned node are evicted
Drain(n) ==
    /\ nodes[n].exists /\ nodes[n].deleting /\ nodes[n].cordoned
    /\ ~nodes[n].empty
    /\ nodes' = [nodes EXCEPT ![n].empty = TRUE]
    /\ UNCHANGED <<resolverVars, cluster, now, provisioners, queueVars, limiterVars, workerVars>>

\* (variant) the instance is terminated without waiting for the drain
CanTerminateInstanceUndrained(n) ==
    /\ nodes[n].exists /\ nodes[n].deleting /\ nodes[n].cordoned
    /\ ~nodes[n].terminated

\* the instance of a node may be terminated once the node is cordoned and drained
CanTerminateInstance(n) ==
    /\ nodes[n].exists /\ nodes[n].deleting /\ nodes[n].cordoned
    /\ nodes[n].empty
    /\ ~nodes[n].terminated

\* graceful termination, step 3: the cloud provider terminates the instance
TerminateInstance(n) ==
    /\ CanTerminateInstance(n)
    /\ nodes' = [nodes EXCEPT ![n].terminated = TRUE]
    /\ UNCHANGED <<resolverVars, cluster, now, provisioners, queueVars, limiterVars, workerVars>>

\* graceful termination, step 4: the termination finalizer is released and
\* the object store removes the Node object
FinalizeNode(n) ==
    /\ nodes[n].exists /\ nodes[n].deleting /\ nodes[n].terminated
    /\ nodes' = [nodes EXCEPT ![n] = NoNode]
    /\ UNCHANGED <<resolverVars, cluster, now, provisioners, queueVars, limiterVars, workerVars>>

\* one second passes; the token bucket refills at its rate, up to its burst
Tick ==
    /\ now < MaxTime
    /\ now' = now + 1
    /\ tokens' = Min(Burst, tokens + Qps)
    /\ UNCHANGED <<resolverVars, cluster, storeVars, queueVars, failures, workerVars>>

\* delayingQueue: the delay of key k is over and the key is added to the queue
TimerFires(k) ==
    /\ waiting[k] > 0
    /\ waiting' = [waiting EXCEPT ![k] = 0]
    /\ queue' = Add(wq, k).queue
    /\ dirty' = Add(wq, k).dirty
    /\ processing' = Add(wq, k).processing
    /\ UNCHANGED <<resolverVars, cluster, now, storeVars, limiterVars, workerVars>>


(* --------------------------- the controller --------------------------- *)
\* a call of key k's cycle may be made to fail
CanFail(k) ==
    /\ failures[k] < MaxFailures
    /\ tokens > Burst - MaxBurstUse

\* processNextWorkItem: an idle worker takes the next key off the queue
\* and calls Reconcile
ProcessNextWorkItem(w) ==
    /\ IdleWorker(w)
    /\ queue # <<>>
    /\ queue' = Get(wq).queue
    /\ dirty' = Get(wq).dirty
    /\ processing' = Get(wq).processing
    /\ req' = [req EXCEPT ![w] = Head(queue)]
    /\ pc' = [pc EXCEPT ![w] = "fetch"]
    /\ UNCHANGED <<resolverVars, cluster, now, storeVars, waiting, limiterVars, provisioner, callErr, result, trace>>

\* Reconcile returns res to worker w
Return(w, res) ==
    /\ pc' = [pc EXCEPT ![w] = "returned"]
    /\ result' = [result EXCEPT ![w] = res]

\* Reconcile step 1: c.KubeClient.Get of the requested Provisioner
Fetch(w) ==
    /\ pc[w] = "fetch"
    /\ trace' = [trace EXCEPT ![w] = Append(@, "fetch")]
    /\ \E e \in {"", "NotFound", "apiError"} :
          /\ e = "NotFound" => ~provisioners[req[w]].exists
          /\ e = "" => provisioners[req[w]].exists
          /\ e = "apiError" => CanFail(req[w])
          /\ callErr' = [callErr EXCEPT ![w] = e]
          /\ IF e = "NotFound"
             THEN Return(w, NotFoundResult) /\ UNCHANGED provisioner
             ELSE IF e # ""
             THEN Return(w, ErrorResult("fetch", e)) /\ UNCHANGED provisioner
             ELSE /\ provisioner' = [provisioner EXCEPT ![w] = provisioners[req[w]]]
                  /\ pc' = [pc EXCEPT ![w] = NextStage("fetch", provisioners[req[w]])]
                  /\ UNCHANGED result
    /\ UNCHANGED <<resolverVars, cluster, now, storeVars, queueVars, limiterVars, req>>

\* one call c.Utilization.<stage>(ctx, provisioner) and what Reconcile does
\* with its error.  The stage lists the owned nodes and acts on each of its
\* targets; the list may fail (nothing is done) and each single update or
\* delete may fail (the others are still attempted).
Stage(w, stage) ==
    /\ pc[w] = stage
    /\ trace' = [trace EXCEPT ![w] = Append(@, stage)]
    /\ LET k == req[w]
           p == provisioner[w]
           T == Targets(stage, k, p)
       IN \E listed \in BOOLEAN, failed \in SUBSET T :
            /\ ~listed => failed = T
            /\ (~listed \/ failed # {}) => CanFail(k)
            /\ nodes' = [n \in Nodes |->
                            IF n \in T \ failed THEN Apply(stage, nodes[n]) ELSE nodes[n]]
            /\ IF ~listed \/ failed # {}
               THEN /\ callErr' = [callErr EXCEPT ![w] = "apiError"]
                    /\ Return(w, ErrorResult(stage, "apiError"))
               ELSE /\ callErr' = [callErr EXCEPT ![w] = ""]
                    /\ IF NextStage(stage, p) = "returned"
                       THEN Return(w, ResultAfter(stage))
                       ELSE /\ pc' = [pc EXCEPT ![w] = NextStage(stage, p)]
                            /\ UNCHANGED result
    /\ UNCHANGED <<resolverVars, cluster, now, provisioners, queueVars, limiterVars, req, provisioner>>

\* Reconcile step 2
TerminateFailedToJoin(w) == Stage(w, "terminateFailedToJoin")
\* Reconcile step 3
MarkUnderutilized(w) == Stage(w, "markUnderutilized")
\* Reconcile step 4
ClearUnderutilized(w) == Stage(w, "clearUnderutilized")
\* Reconcile step 5
TerminateExpired(w) == Stage(w, "terminateExpired")

\* reconcileHandler after Reconcile returned, then Queue.Done:
\*   err != nil            -> Queue.AddRateLimited(req)
\*   result.RequeueAfter>0 -> Queue.Forget(req); Queue.AddAfter(req, RequeueAfter)
\*   otherwise             -> Queue.Forget(req)
ReconcileHandler(w) ==
    /\ pc[w] = "returned"
    /\ LET k == req[w]
           r == result[w]
       IN /\ IF r.err # NoErr
             THEN /\ waiting' = [waiting EXCEPT ![k] = MaxOfWhen(failures[k], tokens)]
                  /\ failures' = [failures EXCEPT ![k] = @ + 1]
                  /\ tokens' = tokens - 1
             ELSE IF r.requeueAfter > 0
             THEN /\ waiting' = [waiting EXCEPT ![k] = r.requeueAfter]
                  /\ failures' = [failures EXCEPT ![k] = 0]
                  /\ UNCHANGED tokens
             ELSE /\ failures' = [failures EXCEPT ![k] = 0]
                  /\ UNCHANGED <<waiting, tokens>>
          /\ queue' = Done(wq, k).queue
          /\ dirty' = Done(wq, k).dirty
          /\ processing' = Done(wq, k).processing
    /\ pc' = [pc EXCEPT ![w] = "idle"]
    /\ req' = [req EXCEPT ![w] = "none"]
    /\ provisioner' = [provisioner EXCEPT ![w] = NotFound]
    /\ callErr' = [callErr EXCEPT ![w] = ""]
    /\ result' = [result EXCEPT ![w] = NoResult]
    /\ trace' = [trace EXCEPT ![w] = <<>>]
    /\ UNCHANGED <<resolverVars, cluster, now, storeVars>>

Next ==
    \/ \E k \in Keys, ae \in AfterEmptyTTLs, ue \in UntilExpiredTTLs :
          ApplyProvisioner(k, ae, ue)
    \/ \E k \in Keys : DeleteProvisioner(k)
    \/ \E n \in Nodes : LaunchNode(n)
    \/ \E n \in Nodes : NodeReady(n)
    \/ \E n \in Nodes : SchedulePod(n)
    \/ \E n \in Nodes : RemovePod(n)
    \/ \E n \in Nodes : DeleteNode(n)
    \/ \E n \in Nodes : Cordon(n)
    \/ \E n \in Nodes : Drain(n)
    \/ \E n \in Nodes : TerminateInstance(n)
    \/ \E n \in Nodes : FinalizeNode(n)
    \/ Tick
    \/ \E k \in Keys : TimerFires(k)
    \/ \E w \in Workers : ProcessNextWorkItem(w)
    \/ \E w \in Workers : Fetch(w)
    \/ \E w \in Workers : TerminateFailedToJoin(w)
    \/ \E w \in Workers : MarkUnderutilized(w)
    \/ \E w \in Workers : ClearUnderutilized(w)
    \/ \E w \in Workers : TerminateExpired(w)
    \/ \E w \in Workers : ReconcileHandler(w)

Spec == Init /\ [][Next]_vars


(* --------------------- the rate limiter in use ------------------------ *)
\* A worker whose Reconcile call has just failed on the fetch, in a
\* controller that has been failing for a while: the key has f consecutive
\* failures behind it and the shared bucket holds t tokens (below zero when
\* the failures of many keys came faster than the bucket refills).
InitRL ==
    /\ cluster = [keys |-> {"p1"}, nodes |-> {"n1"}]
    /\ now = 0
    /\ provisioners = [k \in Keys |->
                          IF k = "p1" THEN ProvisionerSpec(Nil, Nil) ELSE NotFound]
    /\ nodes = [n \in Nodes |-> NoNode]
    /\ queue = <<>>
    /\ dirty = {}
    /\ processing = {"p1"}
    /\ waiting = [k \in Keys |-> 0]
    /\ \E f \in 0 .. MaxBackoffs :
          failures = [k \in Keys |-> IF k = "p1" THEN f ELSE 0]
    /\ tokens \in (0 - MaxDeficit .. 1) \cup {Burst - 1, Burst}
    /\ pc = [w \in Workers |-> IF w = 1 THEN "returned" ELSE "idle"]
    /\ req = [w \in Workers |-> IF w = 1 THEN "p1" ELSE "none"]
    /\ provisioner = [w \in Workers |-> NotFound]
    /\ callErr = [w \in Workers |-> IF w = 1 THEN "apiError" ELSE ""]
    /\ result = [w \in Workers |->
                    IF w = 1 THEN ErrorResult("fetch", "apiError") ELSE NoResult]
    /\ trace = [w \in Workers |-> IF w = 1 THEN <<"fetch">> ELSE <<>>]
    /\ constraints = NoConstraints
    /\ pod = [nodeSelector |-> <<>>]
    /\ resolved = <<>>

NextRL == \E w \in Workers : ReconcileHandler(w)

SpecRL == InitRL /\ [][NextRL]_vars

(* ----------------------- the resolver in use -------------------------- *)
\* calls c.WithOverrides(pod) on provisioner constraints c, which were
\* labelled with c.WithLabel before
InitWO ==
    /\ cluster = [keys |-> {"p1"}, nodes |-> {"n1"}]
    /\ now = 0
    /\ provisioners = [k \in Keys |-> NotFound]
    /\ nodes = [n \in Nodes |-> NoNode]
    /\ queue = <<>>
    /\ dirty = {}
    /\ processing = {}
    /\ waiting = [k \in Keys |-> 0]
    /\ failures = [k \in Keys |-> 0]
    /\ tokens = Burst
    /\ pc = [w \in Workers |-> "idle"]
    /\ req = [w \in Workers |-> "none"]
    /\ provisioner = [w \in Workers |-> NotFound]
    /\ callErr = [w \in Workers |-> ""]
    /\ result = [w \in Workers |-> NoResult]
    /\ trace = [w \in Workers |-> <<>>]
    /\ constraints \in ConstraintSets
    /\ pod \in Pods
    /\ resolved = <<>>

\* the labels WithLabel is called with
AddedLabels == [key : {"env"}, value : {"prod", "dev"}]

\* one call constraints.WithLabel(key, value), before any pod is resolved
CallWithLabel(key, value) ==
    /\ resolved = <<>>
    /\ constraints' = WithLabel(constraints, key, value)
    /\ UNCHANGED <<pod, resolved, cluster, now, storeVars, queueVars,
                   limiterVars, workerVars>>

\* one call constraints.WithOverrides(pod); the call returns a new
\* Constraints value
Resolve ==
    /\ Len(resolved) < MaxCalls
    /\ LET call == WithOverridesCall(constraints, pod)
       IN /\ constraints' = call.receiver
          /\ pod' = call.pod
          /\ resolved' = Append(resolved, call.returned)
    /\ UNCHANGED <<cluster, now, storeVars, queueVars, limiterVars, workerVars>>

NextWO ==
    \/ \E l \in AddedLabels : CallWithLabel(l.key, l.value)
    \/ Resolve

SpecWO == InitWO /\ [][NextWO]_vars

(* ============================ properties ============================== *)
\* the order in which Reconcile calls its collaborators
StageOrder ==
    <<"fetch", "terminateFailedToJoin", "markUnderutilized",
      "clearUnderutilized", "terminateExpired">>

IsPrefix(s, t) ==
    /\ Len(s) <= Len(t)
    /\ \A i \in 1 .. Len(s) : s[i] = t[i]

Last(s) == s[Len(s)]

InTrace(w, stage) == \E i \in 1 .. Len(trace[w]) : trace[w][i] = stage

\* C1: within one cycle the stages run in the order fetch,
\* terminateFailedToJoin, markUnderutilized, clearUnderutilized,
\* terminateExpired; the stage a worker is about to invoke is the one that
\* follows the stages it already invoked, all of which returned no error,
\* and no stage is invoked twice or out of order.
C1_StagesInOrder ==
    \A w \in Workers :
        /\ IsPrefix(trace[w], StageOrder)
        /\ pc[w] \notin {"idle", "returned"} =>
              /\ Len(trace[w]) < Len(StageOrder)
              /\ pc[w] = StageOrder[Len(trace[w]) + 1]
              /\ callErr[w] = ""
              /\ result[w] = NoResult

C1_Witness ==
    \E w \in Workers : pc[w] = "returned" /\ trace[w] = StageOrder

\* C2: a cycle whose fetch returns not-found returns success with no error
\* and no requeueAfter, has invoked no lifecycle operation, its fetch
\* changes no node, and handling its result puts no delayed add in the
\* queue and spends no rate-limiter token.
C2_NotFoundState ==
    \A w \in Workers :
        (pc[w] = "returned" /\ callErr[w] = "NotFound") =>
            /\ result[w].err = [msg |-> "", cause |-> ""]
            /\ result[w].requeueAfter = 0
            /\ trace[w] = <<"fetch">>

C2_NotFoundStep ==
    \A w \in Workers :
        /\ (pc[w] = "fetch" /\ callErr'[w] = "NotFound") => nodes' = nodes
        /\ (pc[w] = "returned" /\ callErr[w] = "NotFound" /\ pc'[w] = "idle") =>
              /\ nodes' = nodes
              /\ waiting' = waiting
              /\ tokens' = tokens
              /\ failures'[req[w]] = 0

\* C2: the not-found cycle is a no-op, as a state condition on the returned
\* cycle and a step condition on its fetch and on the handling of its result.
C2_MissingProvisionerNoOp ==
    [] C2_NotFoundState /\ [][C2_NotFoundStep]_vars

C2_Witness ==
    \E w \in Workers :
        /\ pc[w] = "returned" /\ callErr[w] = "NotFound"
        /\ \E n \in Nodes : nodes[n].exists

\* C5: a cycle in which all four lifecycle stages completed without error
\* returns no error and requeueAfter = 5 s (5000 ms).
C5_SuccessRequeuesAfterFiveSeconds ==
    \A w \in Workers :
        (pc[w] = "returned" /\ trace[w] = StageOrder /\ callErr[w] = "") =>
            /\ result[w].err = [msg |-> "", cause |-> ""]
            /\ result[w].requeueAfter = 5000

C5_Witness ==
    \E w \in Workers :
        /\ pc[w] = "returned" /\ trace[w] = StageOrder /\ callErr[w] = ""
        /\ result[w].requeueAfter = 5000

\* the message each stage's error is wrapped with; the fetch error is
\* returned unwrapped
C7_Message(stage) ==
    IF stage = "terminateFailedToJoin" THEN "terminating nodes that failed to join"
    ELSE IF stage = "markUnderutilized" THEN "adding ttl and underutilized label"
    ELSE IF stage = "clearUnderutilized" THEN "removing ttl from node"
    ELSE IF stage = "terminateExpired" THEN "marking nodes terminable"
    ELSE ""

\* C7: the first failure aborts the cycle: once a call (the fetch, with an
\* error other than not-found, or a lifecycle stage) has failed, Reconcile
\* has returned, the failed call is the last one invoked, the returned error
\* is non-nil, carries the cause wrapped with the failing stage's message,
\* and the result has no requeueAfter.
C7_FirstFailureAborts ==
    \A w \in Workers :
        callErr[w] \notin {"", "NotFound"} =>
            /\ pc[w] = "returned"
            /\ trace[w] # <<>>
            /\ IsPrefix(trace[w], StageOrder)
            /\ result[w].err # [msg |-> "", cause |-> ""]
            /\ result[w].err.cause = callErr[w]
            /\ result[w].err.msg = C7_Message(Last(trace[w]))
            /\ result[w].requeueAfter = 0

C7_Witness ==
    \E w \in Workers :
        /\ callErr[w] = "apiError"
        /\ pc[w] = "returned"
        /\ Last(trace[w]) = "clearUnderutilized"
        /\ \E n \in Nodes : nodes[n].underutilized


\* a worker whose cycle fetched its Provisioner and got nil from
\* terminateFailedToJoin
PastFailedToJoin(w) ==
    /\ provisioner[w].exists
    /\ InTrace(w, "terminateFailedToJoin")
    /\ (Last(trace[w]) = "terminateFailedToJoin" => callErr[w] = "")

\* C3: with no ttlSecondsAfterEmpty, a cycle whose terminateFailedToJoin
\* succeeded invokes neither markUnderutilized nor clearUnderutilized and
\* returns success with a non-zero requeueAfter.
C3_SkipReturnsRevisitInterval ==
    \A w \in Workers :
        (PastFailedToJoin(w) /\ provisioner[w].ttlSecondsAfterEmpty = Nil) =>
            /\ pc[w] = "returned"
            /\ ~InTrace(w, "markUnderutilized")
            /\ ~InTrace(w, "clearUnderutilized")
            /\ result[w].err = [msg |-> "", cause |-> ""]
            /\ result[w].requeueAfter > 0

\* C4: with ttlSecondsUntilExpired defined and ttlSecondsAfterEmpty absent,
\* a cycle that returns success leaves no owned node whose age has reached
\* ttlSecondsUntilExpired without a deletion request.
C4_AgeExpiryStep ==
    \A w \in Workers :
        ( /\ pc[w] # "returned" /\ pc'[w] = "returned"
          /\ result'[w].err = [msg |-> "", cause |-> ""]
          /\ provisioner'[w].exists
          /\ provisioner'[w].ttlSecondsAfterEmpty = Nil
          /\ provisioner'[w].ttlSecondsUntilExpired # Nil ) =>
        \A n \in Nodes :
            ( /\ nodes[n].exists
              /\ NodeOwner[n] = req[w]
              /\ now - nodes[n].created >= provisioner'[w].ttlSecondsUntilExpired ) =>
            nodes'[n].deleting

\* C4: every step that returns such a cycle satisfies the condition above.
C4_AgeExpiryWithoutEmptyTTL == [][C4_AgeExpiryStep]_vars

\* C6: while a Provisioner exists its key is never idle: it is in the queue
\* (dirty), being processed, or held by the delaying queue for a later add.
C6_NeverIdle ==
    \A k \in Keys :
        provisioners[k].exists =>
            \/ k \in dirty
            \/ k \in processing
            \/ waiting[k] > 0

\* C8: every cycle that fetched its Provisioner invokes
\* terminateFailedToJoin next, whatever the two TTL fields hold, and when
\* that call returns nil every owned node that is not ready and older than
\* the join grace period has its deletion requested.
C8_PurgeInvoked ==
    \A w \in Workers :
        (provisioner[w].exists /\ pc[w] # "idle") =>
            \/ pc[w] = "terminateFailedToJoin"
            \/ InTrace(w, "terminateFailedToJoin")

C8_PurgeStep ==
    \A w \in Workers :
        (pc[w] = "terminateFailedToJoin" /\ pc'[w] # pc[w] /\ callErr'[w] = "") =>
            \A n \in Nodes :
                ( /\ nodes[n].exists
                  /\ NodeOwner[n] = req[w]
                  /\ ~nodes[n].ready
                  /\ now - nodes[n].created > JoinGracePeriod ) =>
                nodes'[n].deleting

\* C8: the purge is always invoked and, when it succeeds, requests the
\* deletion of every owned node that failed to join.
C8_FailedToJoinPurgeIgnoresTTL ==
    [] C8_PurgeInvoked /\ [][C8_PurgeStep]_vars

C8_Witness ==
    \E w \in Workers, n \in Nodes :
        /\ pc[w] = "returned"
        /\ provisioner[w] = ProvisionerSpec(Nil, Nil)
        /\ trace[w] = <<"fetch", "terminateFailedToJoin">>
        /\ callErr[w] = ""
        /\ NodeOwner[n] = req[w]
        /\ nodes[n].exists /\ ~nodes[n].ready /\ nodes[n].deleting
        /\ now - nodes[n].created > JoinGracePeriod

\* C9: at most one reconciliation cycle is in flight at any time, whatever
\* the number of keys with pending requests, and no key is reconciled by
\* two workers at once.
C9_OneCycleInFlight ==
    /\ Cardinality({w \in Workers : pc[w] # "idle"}) <= 1
    /\ Cardinality(processing) <= 1
    /\ \A w1, w2 \in Workers :
          (w1 # w2 /\ req[w1] # "none") => req[w1] # req[w2]

C9_Witness ==
    \E w \in Workers :
        /\ pc[w] = "markUnderutilized"
        /\ req[w] = "p1"
        /\ "p1" \in dirty
        /\ queue = <<"p2">>

\* the per-key backoff after n earlier consecutive failures, milliseconds
C10_Backoff(n) ==
    IF n >= 7 THEN 10000
    ELSE <<100, 200, 400, 800, 1600, 3200, 6400>>[n + 1]

\* the wait a bucket of 10 tokens per second imposes when it holds t tokens
C10_BucketDelay(t) ==
    IF t >= 1 THEN 0 ELSE (1 - t) * 100

\* C10: a cycle that returned an error is added back after the longer of
\* the key's exponential backoff (100 ms, doubling per consecutive failure,
\* at most 10 s) and the wait imposed by the token bucket (10 per second).
C10_FailureDelayStep ==
    \A w \in Workers :
        ( /\ pc[w] = "returned" /\ pc'[w] = "idle"
          /\ result[w].err # [msg |-> "", cause |-> ""] ) =>
        LET a == C10_Backoff(failures[req[w]])
            b == C10_BucketDelay(tokens)
        IN /\ waiting'[req[w]] = IF a >= b THEN a ELSE b
           /\ failures'[req[w]] = failures[req[w]] + 1

\* C10: every step that handles a failed cycle uses the longer of the two delays.
C10_FailureDelay == [][C10_FailureDelayStep]_vars

C10_Witness ==
    /\ failures["p1"] = 2
    /\ tokens = 0 - 3
    /\ waiting["p1"] = 300


\* worker w makes the call of its current stage in this step
Calls(w, stage) == pc[w] = stage /\ trace'[w] # trace[w]

\* node n exists and carries the provisioner-name label of w's request
OwnedBy(n, w) == nodes[n].exists /\ NodeOwner[n] = req[w]

\* C11 (state part): a cycle that returns success under a Provisioner with
\* ttlSecondsAfterEmpty has called markUnderutilized and terminateExpired.
C11_CycleState ==
    \A w \in Workers :
        ( /\ pc[w] = "returned"
          /\ result[w].err = [msg |-> "", cause |-> ""]
          /\ provisioner[w].exists
          /\ provisioner[w].ttlSecondsAfterEmpty # Nil ) =>
        /\ InTrace(w, "markUnderutilized")
        /\ InTrace(w, "terminateExpired")

\* C11 (step part), for a Provisioner with ttlSecondsAfterEmpty and no
\* ttlSecondsUntilExpired and an owned node: a successful markUnderutilized
\* leaves an empty node marked (stamped with the current time when it was
\* unmarked); no call of the cycle touches a ready, empty, marked node whose
\* TTL has not elapsed since marking; a successful terminateExpired
\* requests the deletion of a marked node whose TTL has elapsed.
C11_Step ==
    \A w \in Workers, n \in Nodes :
        ( /\ OwnedBy(n, w)
          /\ provisioner[w].exists
          /\ provisioner[w].ttlSecondsAfterEmpty # Nil
          /\ provisioner[w].ttlSecondsUntilExpired = Nil ) =>
        /\ ( /\ Calls(w, "markUnderutilized") /\ callErr'[w] = ""
             /\ nodes[n].empty ) =>
              /\ nodes'[n].underutilized
              /\ nodes'[n].ttlAfterEmpty # Nil
              /\ ~nodes[n].underutilized => nodes'[n].ttlAfterEmpty = now
        /\ ( /\ trace'[w] # trace[w]
             /\ nodes[n].ready /\ nodes[n].empty /\ nodes[n].underutilized
             /\ now - nodes[n].ttlAfterEmpty < provisioner[w].ttlSecondsAfterEmpty ) =>
              nodes'[n] = nodes[n]
        /\ ( /\ Calls(w, "terminateExpired") /\ callErr'[w] = ""
             /\ nodes[n].underutilized
             /\ now - nodes[n].ttlAfterEmpty >= provisioner[w].ttlSecondsAfterEmpty ) =>
              nodes'[n].deleting

\* C11: an empty owned node is marked by the next successful cycle, is left
\* alone by every cycle before ttlSecondsAfterEmpty has elapsed since the
\* marking, and has its deletion requested by the first successful cycle
\* after that.
C11_EmptyNodeLifecycle ==
    [] C11_CycleState /\ [][C11_Step]_vars

C11_Witness ==
    \E w \in Workers, n \in Nodes :
        /\ pc[w] = "returned"
        /\ trace[w] = StageOrder
        /\ callErr[w] = ""
        /\ provisioner[w] = ProvisionerSpec(1, Nil)
        /\ OwnedBy(n, w)
        /\ nodes[n].ready /\ nodes[n].empty /\ nodes[n].underutilized
        /\ nodes[n].deleting
        /\ now - nodes[n].ttlAfterEmpty >= 1

\* the condition under which terminateExpired deletes node n for provisioner p
C12_Expired(n, p) ==
    \/ /\ nodes[n].underutilized
       /\ now - nodes[n].ttlAfterEmpty >= p.ttlSecondsAfterEmpty
    \/ /\ p.ttlSecondsUntilExpired # Nil
       /\ now - nodes[n].created >= p.ttlSecondsUntilExpired

C12_Step ==
    \A w \in Workers, n \in Nodes :
        Calls(w, "terminateExpired") =>
            IF OwnedBy(n, w) /\ ~nodes[n].deleting
            THEN /\ nodes'[n].deleting => C12_Expired(n, provisioner[w])
                 /\ (callErr'[w] = "" /\ C12_Expired(n, provisioner[w])) =>
                        nodes'[n].deleting
                 /\ nodes'[n] \in {nodes[n], [nodes[n] EXCEPT !.deleting = TRUE]}
            ELSE nodes'[n] = nodes[n]

\* C12: terminateExpired requests the deletion of an owned node exactly
\* when the node is marked and its marker is at least ttlSecondsAfterEmpty
\* old, or ttlSecondsUntilExpired is defined and the node is at least that
\* old; the boundary is inclusive.
C12_ExpiryBoundary == [][C12_Step]_vars

\* a node deleted exactly on the boundary of its empty TTL, by a cycle
\* without an age TTL
C12_Witness ==
    \E w \in Workers, n \in Nodes :
        /\ pc[w] = "returned"
        /\ Last(trace[w]) = "terminateExpired"
        /\ provisioner[w].ttlSecondsUntilExpired = Nil
        /\ OwnedBy(n, w)
        /\ nodes[n].deleting /\ nodes[n].underutilized
        /\ now - nodes[n].ttlAfterEmpty = provisioner[w].ttlSecondsAfterEmpty

\* C13: in every state each node carries the underutilized label exactly
\* when it carries the ttl-after-empty annotation.
C13_MarkerConsistent ==
    \A n \in Nodes : nodes[n].underutilized <=> nodes[n].ttlAfterEmpty # Nil

\* a cycle aborted by a failing clearUnderutilized, the node still marked
C13_Witness ==
    \E w \in Workers, n \in Nodes :
        /\ pc[w] = "returned"
        /\ callErr[w] = "apiError"
        /\ Last(trace[w]) = "clearUnderutilized"
        /\ ~nodes[n].empty
        /\ nodes[n].underutilized /\ nodes[n].ttlAfterEmpty # Nil

C14_Step ==
    \A w \in Workers :
        Calls(w, "markUnderutilized") =>
            /\ \A n \in Nodes : nodes[n].underutilized => nodes'[n] = nodes[n]
            /\ callErr'[w] = "" =>
                  \A n \in Nodes :
                      (nodes'[n].exists /\ NodeOwner[n] = req[w] /\ nodes'[n].empty) =>
                          nodes'[n].underutilized

\* C14: markUnderutilized leaves an already marked node as it is, with its
\* original timestamp, and after a successful call no empty owned node is
\* unmarked, so a further call on the same nodes changes nothing.
C14_MarkIdempotent == [][C14_Step]_vars

\* markUnderutilized has just run over a node that was marked earlier
C14_Witness ==
    \E w \in Workers, n \in Nodes :
        /\ pc[w] = "clearUnderutilized"
        /\ OwnedBy(n, w)
        /\ nodes[n].empty /\ nodes[n].underutilized
        /\ nodes[n].ttlAfterEmpty < now


\* the termination steps a node has gone through are in order: cordoned
\* only after its deletion was requested, instance terminated only on a
\* cordoned node without non-daemonset pods
C15_Ordered ==
    \A n \in Nodes :
        /\ nodes[n].cordoned => nodes[n].deleting
        /\ nodes[n].terminated => (nodes[n].cordoned /\ nodes[n].empty)

C15_Step ==
    \A n \in Nodes :
        /\ (nodes[n].exists /\ ~nodes'[n].exists) =>
              /\ nodes[n].deleting
              /\ nodes[n].cordoned
              /\ nodes[n].empty
              /\ nodes[n].terminated
        /\ (nodes[n].deleting /\ nodes'[n].exists) =>
              /\ nodes'[n].deleting
              /\ nodes[n].cordoned => nodes'[n].cordoned
              /\ nodes[n].terminated => nodes'[n].terminated
        /\ (~nodes[n].terminated /\ nodes'[n].terminated) =>
              (nodes[n].cordoned /\ nodes[n].empty)

Selector == pod.nodeSelector

\* C16: for each of zone, instance type, architecture and operating system,
\* when the pod's nodeSelector carries the dimension's well-known key the
\* resolved value is the pod's value (a one-element list for zones and
\* instance types), whatever the provisioner configures.
C16_PodOverrides ==
    resolved # <<>> =>
        /\ "topology.kubernetes.io/zone" \in DOMAIN Selector =>
              resolved[1].zones = <<Selector["topology.kubernetes.io/zone"]>>
        /\ "node.kubernetes.io/instance-type" \in DOMAIN Selector =>
              resolved[1].instanceTypes = <<Selector["node.kubernetes.io/instance-type"]>>
        /\ "kubernetes.io/arch" \in DOMAIN Selector =>
              resolved[1].architecture = <<Selector["kubernetes.io/arch"]>>
        /\ "kubernetes.io/os" \in DOMAIN Selector =>
              resolved[1].operatingSystem = <<Selector["kubernetes.io/os"]>>

\* a pod overriding all four dimensions of a provisioner that configures all four
C16_Witness ==
    /\ resolved # <<>>
    /\ {"topology.kubernetes.io/zone", "node.kubernetes.io/instance-type",
        "kubernetes.io/arch", "kubernetes.io/os"} \subseteq DOMAIN Selector
    /\ constraints.zones = <<"zone-a", "zone-c">>
    /\ constraints.instanceTypes = <<"m5.large">>
    /\ constraints.architecture = <<"amd64">>
    /\ constraints.operatingSystem = <<"linux">>
    /\ resolved[1].zones = <<"zone-b">>
    /\ resolved[1].architecture = <<"arm64">>

\* C17: for a dimension the pod does not override, the resolved value is
\* the provisioner's when it is configured and otherwise the default:
\* amd64, linux, and no zones and no instance types.
C17_Fallback ==
    resolved # <<>> =>
        /\ "topology.kubernetes.io/zone" \notin DOMAIN Selector =>
              resolved[1].zones = constraints.zones
        /\ "node.kubernetes.io/instance-type" \notin DOMAIN Selector =>
              resolved[1].instanceTypes = constraints.instanceTypes
        /\ "kubernetes.io/arch" \notin DOMAIN Selector =>
              resolved[1].architecture =
                  IF constraints.architecture = <<>> THEN <<"amd64">>
                  ELSE constraints.architecture
        /\ "kubernetes.io/os" \notin DOMAIN Selector =>
              resolved[1].operatingSystem =
                  IF constraints.operatingSystem = <<>> THEN <<"linux">>
                  ELSE constraints.operatingSystem

\* nothing configured and nothing overridden
C17_Witness ==
    /\ resolved # <<>>
    /\ DOMAIN Selector = {}
    /\ constraints.zones = <<>> /\ constraints.instanceTypes = <<>>
    /\ constraints.architecture = <<>> /\ constraints.operatingSystem = <<>>
    /\ resolved[1].architecture = <<"amd64">>
    /\ resolved[1].operatingSystem = <<"linux">>
    /\ resolved[1].zones = <<>> /\ resolved[1].instanceTypes = <<>>

\* C18: the resolved labels have the keys of the provisioner's labels and
\* of the pod's nodeSelector; a key of the nodeSelector has the pod's
\* value, any other key the provisioner's.
C18_LabelsUnion ==
    resolved # <<>> =>
        /\ DOMAIN resolved[1].labels = (DOMAIN constraints.labels) \cup (DOMAIN Selector)
        /\ \A k \in DOMAIN Selector : resolved[1].labels[k] = Selector[k]
        /\ \A k \in (DOMAIN constraints.labels) \ (DOMAIN Selector) :
              resolved[1].labels[k] = constraints.labels[k]

\* the label team is a for the provisioner and b for the pod
C18_Witness ==
    /\ resolved # <<>>
    /\ "team" \in DOMAIN constraints.labels
    /\ "env" \in DOMAIN constraints.labels
    /\ "team" \in DOMAIN Selector
    /\ constraints.labels["team"] = "a"
    /\ Selector["team"] = "b"
    /\ resolved[1].labels["team"] = "b"

\* C19: the resolved taints are the provisioner's taints, for every pod.
C19_TaintsUnchanged ==
    resolved # <<>> => resolved[1].taints = constraints.taints

\* a tainted provisioner and a pod overriding every dimension
C19_Witness ==
    /\ resolved # <<>>
    /\ constraints.taints # <<>>
    /\ DOMAIN Selector = DOMAIN PodSelectorValues
    /\ resolved[1].taints = constraints.taints


\* C20 (state part): a worker about to call terminateExpired has called
\* clearUnderutilized last in the same cycle, and that call returned nil.
C20_ClearedFirst ==
    \A w \in Workers :
        pc[w] = "terminateExpired" =>
            /\ Len(trace[w]) > 0
            /\ Last(trace[w]) = "clearUnderutilized"
            /\ callErr[w] = ""

\* C20 (step part), for an owned node n of worker w's cycle: a successful
\* clearUnderutilized leaves a non-empty node without label and annotation,
\* however old the annotation was; no step taken while the worker stands
\* before terminateExpired marks an unmarked node; terminateExpired
\* requests the deletion of an unmarked node only when the age TTL has run
\* out.
C20_Step ==
    \A w \in Workers, n \in Nodes :
        OwnedBy(n, w) =>
        /\ ( /\ Calls(w, "clearUnderutilized") /\ callErr'[w] = ""
             /\ ~nodes[n].empty ) =>
              /\ ~nodes'[n].underutilized
              /\ nodes'[n].ttlAfterEmpty = Nil
              /\ nodes'[n].deleting = nodes[n].deleting
        /\ ( /\ pc[w] = "terminateExpired" /\ ~Calls(w, "terminateExpired")
             /\ ~nodes[n].underutilized ) =>
              ~nodes'[n].underutilized
        /\ ( /\ Calls(w, "terminateExpired")
             /\ ~nodes[n].underutilized /\ ~nodes[n].deleting
             /\ ~AgeTTLExpired(n, provisioner[w]) ) =>
              nodes'[n] = nodes[n]

\* C20: terminateExpired runs only after clearUnderutilized succeeded in
\* the same cycle, so a node that clearUnderutilized saw with pods has lost
\* its marker and is not deleted on the empty TTL in that cycle.
C20_NonEmptyNotReclaimed ==
    [] C20_ClearedFirst /\ [][C20_Step]_vars

\* a full cycle under an empty TTL of 1 returned, and its node, two ticks
\* old and running a pod, is unmarked and not deleted
C20_Witness ==
    \E w \in Workers, n \in Nodes :
        /\ pc[w] = "returned"
        /\ trace[w] = StageOrder
        /\ callErr[w] = ""
        /\ provisioner[w] = ProvisionerSpec(1, Nil)
        /\ OwnedBy(n, w)
        /\ now - nodes[n].created >= 2
        /\ nodes[n].ready /\ ~nodes[n].empty
        /\ ~nodes[n].underutilized /\ nodes[n].ttlAfterEmpty = Nil
        /\ ~nodes[n].deleting


\* C21 (state part): all calls of WithOverrides on the same constraints and
\* pod returned equal values.
C21_SameResult ==
    \A i, j \in DOMAIN resolved : resolved[i] = resolved[j]

\* C21 (step part): a call of WithOverrides returns one more value and
\* leaves the receiver (taints, labels, zones, instance types, architecture,
\* operating system) and the pod as they were; a step that changes the
\* constraints is a call of WithLabel, which changes the receiver's labels
\* and nothing else of it.
C21_Step ==
    /\ resolved' # resolved =>
          /\ Len(resolved') = Len(resolved) + 1
          /\ constraints' = constraints
          /\ pod' = pod
    /\ constraints' # constraints =>
          /\ resolved' = resolved
          /\ constraints'.labels # constraints.labels
          /\ constraints' = [constraints EXCEPT !.labels = constraints'.labels]

=============================================================================
